---- MODULE Spec2Model ----
(***************************************************************************)
(* Simulation driver of the RV32I CPU testbench (src/sim/main.cpp): the    *)
(* control loop that owns simulation time, steps the Verilated model,      *)
(* dumps the waveform trace and stops on the context's finish flag.        *)
(*                                                                         *)
(* The Verilated model is opaque to the driver.  What the claims need of   *)
(* it is modelled as an environment: a schedule of timed events chosen     *)
(* when the model is constructed, which eval() consumes, and a finish      *)
(* request the model may raise whenever its code runs.                     *)
(***************************************************************************)
EXTENDS Integers, Sequences, FiniteSets

VARIABLES
    pc,          \* position of main() in main.cpp
    time,        \* contextp->time()
    gotFinish,   \* contextp->gotFinish()
    sched,       \* the model's events as scheduled at construction: time -> count
    events,      \* the model's events still pending: time -> count
    tfp,         \* the VerilatedVcdC object: "null", "allocated", "deleted"
    attached,    \* dut->trace(tfp, 99) has bound the sink to the model
    isOpen,      \* tfp->isOpen()
    log,         \* history: the calls made so far, as <<operation, time>>
    out,         \* the lines written to std::cout
    exitCode,    \* the value main returns, -1 while it has not returned
    globalArgs   \* the arguments held by the process-wide Verilated state

vars == <<pc, time, gotFinish, sched, events, tfp, attached, isOpen, log, out, exitCode,
          globalArgs>>

\* Bounds of the exploration.
MaxTime == 4
MaxCoincident == 2

\* Trace depth passed to dut->trace.
TraceDepth == 99

----------------------------------------------------------------------------
\* The model's timing scheduler (environment).

EventTimes == 1..MaxTime

Schedules == [EventTimes -> 0..MaxCoincident]

NoEvents == [t \in EventTimes |-> 0]

\* eval() at time now resumes every event whose time has come.
Resume(ev, now) == [t \in EventTimes |-> IF t <= now THEN 0 ELSE ev[t]]

EventsPending(ev) == \E t \in EventTimes : ev[t] > 0

\* The time of the earliest pending event.
NextTimeSlot(ev) ==
    CHOOSE t \in EventTimes : ev[t] > 0 /\ \A u \in EventTimes : ev[u] > 0 => t <= u

\* The distinct times at which the model scheduled events.
DistinctTimes(s) == {t \in EventTimes : s[t] > 0}

Max(S) == CHOOSE x \in S : \A y \in S : y <= x

----------------------------------------------------------------------------
\* History helpers.

Calls(op) == {i \in DOMAIN log : log[i][1] = op}

Count(op) == Cardinality(Calls(op))

Called(op) == Calls(op) # {}

----------------------------------------------------------------------------
Init ==
    /\ pc = "context"
    /\ time = 0
    /\ gotFinish = FALSE
    /\ sched = NoEvents
    /\ events = NoEvents
    /\ tfp = "null"
    /\ attached = FALSE
    /\ isOpen = FALSE
    /\ log = <<>>
    /\ out = <<>>
    /\ exitCode = -1
    /\ globalArgs = <<>>

\* main.cpp:11-13  a fresh context: time 0, no finish requested.
SetUpContext ==
    /\ pc = "context"
    /\ time' = 0
    /\ gotFinish' = FALSE
    /\ pc' = "create_dut"
    /\ UNCHANGED <<sched, events, tfp, attached, isOpen, log, out, exitCode, globalArgs>>


\* main.cpp:16  the model is constructed on the context.  It is here that the
\* model's timed events come to exist; code of the model runs, so it may
\* already request the finish.
CreateDut ==
    /\ pc = "create_dut"
    /\ \E s \in Schedules, fin \in BOOLEAN :
          /\ sched' = s
          /\ events' = s
          /\ gotFinish' = (gotFinish \/ fin)
          /\ log' = log \o (IF fin /\ ~gotFinish THEN <<<<"finish", time>>>> ELSE <<>>)
    /\ pc' = "new_tfp"
    /\ UNCHANGED <<time, tfp, attached, isOpen, out, exitCode, globalArgs>>

\* main.cpp:19  VerilatedVcdC* tfp = new VerilatedVcdC
NewTrace ==
    /\ pc = "new_tfp"
    /\ tfp' = "allocated"
    /\ pc' = "trace"
    /\ UNCHANGED <<time, gotFinish, sched, events, attached, isOpen, log, out, exitCode, globalArgs>>

\* main.cpp:20  dut->trace(tfp, 99)
AttachTrace ==
    /\ pc = "trace"
    /\ attached' = TRUE
    /\ log' = Append(log, <<"attach", TraceDepth>>)
    /\ pc' = "open"
    /\ UNCHANGED <<time, gotFinish, sched, events, tfp, isOpen, out, exitCode, globalArgs>>

\* main.cpp:21  tfp->open("waveform.vcd").  The call returns nothing and the
\* driver tests nothing after it: whether the file could be opened shows only
\* in isOpen(), and main goes on to line 23 either way.
OpenTrace ==
    /\ pc = "open"
    /\ \E ok \in BOOLEAN :
          /\ isOpen' = ok
          /\ log' = Append(log, <<IF ok THEN "open_ok" ELSE "open_failed", time>>)
    /\ pc' = "print_start"
    /\ UNCHANGED <<time, gotFinish, sched, events, tfp, attached, out, exitCode, globalArgs>>

\* A start-up that clears the finish flag.
PrintStartResets ==
    /\ pc = "print_start"
    /\ out' = Append(out, <<"Starting RV32I CPU simulation...">>)
    /\ gotFinish' = FALSE
    /\ pc' = "loop"
    /\ UNCHANGED <<time, sched, events, tfp, attached, isOpen, log, exitCode, globalArgs>>

\* main.cpp:23
PrintStart ==
    /\ pc = "print_start"
    /\ out' = Append(out, <<"Starting RV32I CPU simulation...">>)
    /\ pc' = "loop"
    /\ UNCHANGED <<time, gotFinish, sched, events, tfp, attached, isOpen, log, exitCode, globalArgs>>

\* A loop head that also stops at an iteration ceiling.
LoopHeadCeiling ==
    /\ pc = "loop"
    /\ pc' = IF gotFinish \/ time >= 2 THEN "final" ELSE "eval"
    /\ UNCHANGED <<time, gotFinish, sched, events, tfp, attached, isOpen, log, out, exitCode, globalArgs>>

\* A loop exit that goes straight to closing the trace.
LoopHeadSkipFinal ==
    /\ pc = "loop"
    /\ gotFinish \/ time <= MaxTime
    /\ pc' = IF gotFinish THEN "close" ELSE "eval"
    /\ UNCHANGED <<time, gotFinish, sched, events, tfp, attached, isOpen, log, out, exitCode, globalArgs>>

\* A loop that tests the flag only after the first pass through its body.
LoopHeadDoWhile ==
    /\ pc = "loop"
    /\ gotFinish \/ time <= MaxTime
    /\ pc' = IF gotFinish /\ Called("eval") THEN "final" ELSE "eval"
    /\ UNCHANGED <<time, gotFinish, sched, events, tfp, attached, isOpen, log, out, exitCode, globalArgs>>

\* main.cpp:26  while (!contextp->gotFinish()).  The exploration follows the
\* loop up to time MaxTime.
LoopHead ==
    /\ pc = "loop"
    /\ gotFinish \/ time <= MaxTime
    /\ pc' = IF gotFinish THEN "final" ELSE "eval"
    /\ UNCHANGED <<time, gotFinish, sched, events, tfp, attached, isOpen, log, out, exitCode, globalArgs>>

\* An evaluation that lets time move before the sample is taken.
EvalAdvances ==
    /\ pc = "eval"
    /\ \E fin \in BOOLEAN :
          /\ gotFinish' = (gotFinish \/ fin)
          /\ log' = Append(log, <<"eval", time>>)
    /\ events' = Resume(events, time)
    /\ time' = time + 1
    /\ pc' = "dump"
    /\ UNCHANGED <<sched, tfp, attached, isOpen, out, exitCode, globalArgs>>

\* main.cpp:28  dut->eval(): the model resumes the events whose time has
\* come, and its code may request the finish; every request is recorded.
Eval ==
    /\ pc = "eval"
    /\ \E fin \in BOOLEAN :
          /\ gotFinish' = (gotFinish \/ fin)
          /\ log' = Append(log, <<"eval", time>>)
                       \o (IF fin THEN <<<<"finish", time>>>> ELSE <<>>)
    /\ events' = Resume(events, time)
    /\ pc' = "dump"
    /\ UNCHANGED <<time, sched, tfp, attached, isOpen, out, exitCode, globalArgs>>

\* A dump stamped with the time of the next tick.
DumpStale ==
    /\ pc = "dump"
    /\ log' = Append(log, <<"dump", time + 1, time>>)
    /\ pc' = "timeInc"
    /\ UNCHANGED <<time, gotFinish, sched, events, tfp, attached, isOpen, out, exitCode, globalArgs>>

\* A loop body that breaks off after the evaluate once the finish is requested.
DumpUnlessFinished ==
    /\ pc = "dump"
    /\ IF gotFinish
       THEN /\ pc' = "final"
            /\ log' = log
       ELSE /\ pc' = "timeInc"
            /\ log' = Append(log, <<"dump", time, time>>)
    /\ UNCHANGED <<time, gotFinish, sched, events, tfp, attached, isOpen, out, exitCode, globalArgs>>

\* main.cpp:31  tfp->dump(contextp->time()).  The entry keeps the timestamp
\* passed and the context's time when the call is made.
Dump ==
    /\ pc = "dump"
    /\ log' = Append(log, <<"dump", time, time>>)
    /\ pc' = "timeInc"
    /\ UNCHANGED <<time, gotFinish, sched, events, tfp, attached, isOpen, out, exitCode, globalArgs>>

\* A tick of two time units.
TimeIncTwo ==
    /\ pc = "timeInc"
    /\ time' = time + 2
    /\ pc' = "loop"
    /\ UNCHANGED <<gotFinish, sched, events, tfp, attached, isOpen, log, out, exitCode, globalArgs>>

\* main.cpp:34  contextp->timeInc(1)
TimeInc ==
    /\ pc = "timeInc"
    /\ time' = time + 1
    /\ pc' = "loop"
    /\ UNCHANGED <<gotFinish, sched, events, tfp, attached, isOpen, log, out, exitCode, globalArgs>>

\* A finalize after which control returns to the loop.
FinalReenters ==
    /\ pc = "final"
    /\ log' = Append(log, <<"final", time>>)
    /\ pc' = IF Count("final") = 0 THEN "loop" ELSE "close"
    /\ UNCHANGED <<time, gotFinish, sched, events, tfp, attached, isOpen, out, exitCode, globalArgs>>

\* main.cpp:38  dut->final()
Final ==
    /\ pc = "final"
    /\ log' = Append(log, <<"final", time>>)
    /\ pc' = "close"
    /\ UNCHANGED <<time, gotFinish, sched, events, tfp, attached, isOpen, out, exitCode, globalArgs>>

\* A cleanup that leaves the closing to the destructor.
CloseSkipped ==
    /\ pc = "close"
    /\ pc' = "delete"
    /\ UNCHANGED <<time, gotFinish, sched, events, tfp, attached, isOpen, log, out, exitCode, globalArgs>>

\* main.cpp:39  tfp->close()
Close ==
    /\ pc = "close"
    /\ isOpen' = FALSE
    /\ log' = Append(log, <<"close", time>>)
    /\ pc' = "delete"
    /\ UNCHANGED <<time, gotFinish, sched, events, tfp, attached, out, exitCode, globalArgs>>

\* main.cpp:40  delete tfp
DeleteTrace ==
    /\ pc = "delete"
    /\ tfp' = "deleted"
    /\ pc' = "report"
    /\ UNCHANGED <<time, gotFinish, sched, events, attached, isOpen, log, out, exitCode, globalArgs>>

\* A completion line that gives the time of the last sample.
ReportStale ==
    /\ pc = "report"
    /\ out' = Append(out, <<"Simulation completed at time ", IF time > 0 THEN time - 1 ELSE 0>>)
    /\ pc' = "return"
    /\ UNCHANGED <<time, gotFinish, sched, events, tfp, attached, isOpen, log, exitCode, globalArgs>>

\* main.cpp:42
Report ==
    /\ pc = "report"
    /\ out' = Append(out, <<"Simulation completed at time ", time>>)
    /\ pc' = "return"
    /\ UNCHANGED <<time, gotFinish, sched, events, tfp, attached, isOpen, log, exitCode, globalArgs>>

\* A main that returns a failure code.
ReturnFailure ==
    /\ pc = "return"
    /\ exitCode' = 1
    /\ pc' = "done"
    /\ UNCHANGED <<time, gotFinish, sched, events, tfp, attached, isOpen, log, out, globalArgs>>

\* main.cpp:44  return 0
Return ==
    /\ pc = "return"
    /\ exitCode' = 0
    /\ pc' = "done"
    /\ UNCHANGED <<time, gotFinish, sched, events, tfp, attached, isOpen, log, out, globalArgs>>

Next ==
    \/ SetUpContext
    \/ CreateDut
    \/ NewTrace
    \/ AttachTrace
    \/ OpenTrace
    \/ PrintStart
    \/ LoopHead
    \/ Eval
    \/ Dump
    \/ TimeInc
    \/ Final
    \/ Close
    \/ DeleteTrace
    \/ Report
    \/ Return

Spec == Init /\ [][Next]_vars

\* The positions of main after the scheduler loop has been left.
Stopped == {"final", "close", "delete", "report", "return", "done"}

\* The positions of main inside the scheduler loop.
Running == {"loop", "eval", "dump", "timeInc"}

TypeOK ==
    /\ pc \in {"context", "create_dut", "new_tfp", "trace", "open", "print_start"}
                 \cup Running \cup Stopped
                 \cup {"unit_args", "unit_print", "unit_return", "unit_done"}
    /\ time \in 0..(MaxTime + 1)
    /\ gotFinish \in BOOLEAN
    /\ sched \in Schedules
    /\ events \in Schedules
    /\ tfp \in {"null", "allocated", "deleted"}
    /\ attached \in BOOLEAN
    /\ isOpen \in BOOLEAN
    /\ exitCode \in {-1, 0}
    /\ globalArgs \in Seq({"+verilator+seed+1", "+trace", "test"})


----------------------------------------------------------------------------
\* What the history shows.

IsEvalOrDump(e) == e[1] \in {"eval", "dump"}

\* The evaluate and dump calls, in the order they were made.
EvalDumps == SelectSeq(log, IsEvalOrDump)

\* The time in the completion line, once it has been written.
ReportedTime == out[Len(out)][2]

\* The model raised the finish inside the eval that resumed its last event.
FinishedWithLastEvent ==
    /\ DistinctTimes(sched) # {}
    /\ \E i \in Calls("finish") :
          /\ i > 1
          /\ log[i - 1] = <<"eval", Max(DistinctTimes(sched))>>

----------------------------------------------------------------------------
\* C1: the loop is left exactly when the finish flag is set.  A loop-head
\* check that finds the flag raised goes to the cleanup, one that finds it
\* clear goes on to evaluate; the loop is left only from the loop head and
\* only with the flag raised; once left there is no further evaluate or dump;
\* finalize and close are never called while the flag is clear.
C1_StopsExactlyOnFinish ==
    [][ /\ (pc = "loop" /\ gotFinish => pc' = "final")
        /\ (pc = "loop" /\ ~gotFinish => pc' = "eval")
        /\ (pc \notin Stopped /\ pc' \in Stopped => pc = "loop" /\ gotFinish)
        /\ (pc \in Stopped => /\ pc' \in Stopped
                              /\ Count("eval")' = Count("eval")
                              /\ Count("dump")' = Count("dump"))
        /\ (Called("final")' \/ Called("close")' => gotFinish')
      ]_vars

\* A run that iterated, then stopped on the flag.
C1_Witness == pc = "done" /\ gotFinish /\ Count("eval") >= 2 /\ Called("final")

\* C2: SimulationTime is 0 until the scheduler loop runs, never decreases,
\* changes only on a step inside the loop, and every dump is stamped with the
\* context's time at the moment of the call.
C2_TimeMonotone ==
    [][ /\ (pc \notin (Running \cup Stopped) => time = 0)
        /\ time' >= time
        /\ (time' # time => pc \in Running /\ pc' \in Running)
        /\ \A i \in Calls("dump")' : log'[i][2] = log'[i][3]
      ]_vars

\* Time has advanced and samples were dumped at later times than 0.
C2_Witness == pc = "done" /\ time >= 2 /\ \E i \in Calls("dump") : log[i][2] >= 2

\* C3: after the evaluate and dump at time t the driver moves time to the
\* model's next pending event, so every evaluate after the first one is at
\* a time where the model scheduled an event.
C3_AdvancesToNextEvent ==
    [][ /\ (pc = "timeInc" /\ EventsPending(events) => time' = NextTimeSlot(events))
        /\ (pc = "eval" /\ time > 0 => time \in DistinctTimes(sched))
      ]_vars

\* C4: when the model raises the finish with its last event, there is one
\* evaluate/dump pair per distinct event time and one more, and the time
\* reported is the time of the last event.
C4_OnePairPerEventTime ==
    (pc = "done" /\ FinishedWithLastEvent) =>
        /\ Count("eval") = Cardinality(DistinctTimes(sched)) + 1
        /\ Count("dump") = Count("eval")
        /\ ReportedTime = Max(DistinctTimes(sched))

C6_ClosedExactlyOnce ==
    /\ Count("close") <= 1
    /\ (pc \in {"delete", "report", "return", "done"} => Count("close") = 1)

\* A run of zero iterations that returned, and closed the trace once.
C6_Witness == pc = "done" /\ Count("eval") = 0 /\ Count("close") = 1

\* C7: the trace sink is used in the order attach, open, dump*, close: every
\* open follows the attach, every dump follows a successful open, and no dump
\* follows the close.
C7_TraceOrder ==
    /\ \A o \in Calls("open_ok") \cup Calls("open_failed") :
          \E a \in Calls("attach") : a < o
    /\ \A d \in Calls("dump") :
          /\ \E o \in Calls("open_ok") : o < d
          /\ \A c \in Calls("close") : d < c

\* C8: if opening the trace file failed, no evaluate and no dump is performed.
C8_OpenFailureAborts ==
    Called("open_failed") => ~Called("eval") /\ ~Called("dump")

\* C9: finalize is called exactly once, from the position after the loop;
\* once it has been called the loop is not re-entered and there is no further
\* evaluate, dump or finalize.
C9_FinalOnce ==
    [][ /\ (Count("final")' # Count("final") =>
               pc = "final" /\ gotFinish /\ Count("final") = 0)
        /\ (Called("final") => /\ pc' \in Stopped
                               /\ Count("eval")' = Count("eval")
                               /\ Count("dump")' = Count("dump"))
        /\ (pc' = "done" => Count("final")' = 1)
      ]_vars

\* A run that iterated, finalized and returned.
C9_Witness == pc = "done" /\ Count("final") = 1 /\ Count("eval") >= 1

\* C10: evaluates and dumps alternate, starting with an evaluate; each dump
\* carries the time of the evaluate just before it, which is still the
\* context's time; the dump timestamps strictly increase.
C10_EvalThenDump ==
    /\ \A i \in DOMAIN EvalDumps :
          IF i % 2 = 1
          THEN EvalDumps[i][1] = "eval"
          ELSE /\ EvalDumps[i][1] = "dump"
               /\ EvalDumps[i][2] = EvalDumps[i - 1][2]
               /\ EvalDumps[i][3] = EvalDumps[i - 1][2]
    /\ \A i, j \in Calls("dump") : i < j => log[i][2] < log[j][2]
    /\ (pc \in {"loop", "eval"} \cup Stopped => Count("dump") = Count("eval"))

\* Several iterations have been made.
C10_Witness == pc = "loop" /\ Count("dump") >= 3


\* The finish requests the model made from inside an evaluate.
FinishInEval == {i \in Calls("finish") : i > 1 /\ log[i - 1][1] = "eval"}

\* C11: the loop advances time by a fixed tick: time starts at 0 and grows by
\* exactly 1 per iteration, so at every loop-head check, and after the loop,
\* time = number of evaluates = number of dumps, and the time reported is
\* the number of iterations made.
C11_FixedTick ==
    [][ /\ (pc = "print_start" => time = 0)
        /\ (time' # time => time' = time + 1 /\ pc = "timeInc")
        /\ (pc \in {"loop"} \cup Stopped =>
               time = Count("eval") /\ time = Count("dump"))
        /\ (pc' = "return" => ReportedTime' = Count("eval")')
      ]_vars

\* A run of three or more iterations that reported its time.
C11_Witness == pc = "done" /\ Count("eval") >= 3 /\ ReportedTime = Count("eval")


\* The ceiling N of the claim about a configured IterationCeiling.
IterationCeiling == 2

C13_ReportsFinishTime ==
    pc = "done" => \A i \in FinishInEval : ReportedTime = log[i][2]

\* C13 as amended: when the model raises the finish during the evaluate at
\* time T, the loop stops at the next loop-head check and the completion line
\* reports time T + 1, the tick after the evaluate having been made.
C13_ReportsTickAfterFinish ==
    pc \in {"return", "done"} =>
        /\ Len(out) = 2
        /\ out[2][1] = "Simulation completed at time "
        /\ \A i \in FinishInEval : ReportedTime = log[i][2] + 1

\* A run that reported after the finish was raised in an evaluate at T >= 1.
C13_Witness == pc = "done" /\ \E i \in FinishInEval : log[i][2] >= 1


\* main is one sequential thread: whenever it has a next statement, it
\* executes it.
FairSpec == Spec /\ WF_vars(Next)

\* C14: no timeout or ceiling is enforced.  While the flag has not been raised
\* the driver is never past the loop (no finalize, close, report or return);
\* once the flag is raised the driver eventually has left the loop, finalized
\* the model, closed the trace, written the completion line and returned 0.
C14_NoTimeout ==
    /\ [](pc \in Stopped \/ Called("final") \/ Called("close") \/ exitCode # -1
             => gotFinish)
    /\ (gotFinish ~> (/\ pc = "done"
                      /\ exitCode = 0
                      /\ Count("final") = 1
                      /\ Count("close") = 1
                      /\ Len(out) = 2
                      /\ ReportedTime = time))

\* A run that looped, saw the flag and returned 0.
C14_Witness == pc = "done" /\ exitCode = 0 /\ gotFinish /\ Count("eval") >= 2 /\ Len(out) = 2


----------------------------------------------------------------------------
\* The unit-test driver (src/sim/main_unit.cpp).

\* Bound on the number of command-line arguments explored.
MaxArgs == 3

ArgWords == {"+verilator+seed+1", "+trace", "test"}

\* The argument vectors argv[1..] of at most MaxArgs words.
ArgVectors == UNION {[1..n -> ArgWords] : n \in 0..MaxArgs}

\* The process starts in main of main_unit.cpp; no model, context or trace
\* sink exists.
InitUnit ==
    /\ pc = "unit_args"
    /\ time = 0
    /\ gotFinish = FALSE
    /\ sched = NoEvents
    /\ events = NoEvents
    /\ tfp = "null"
    /\ attached = FALSE
    /\ isOpen = FALSE
    /\ log = <<>>
    /\ out = <<>>
    /\ exitCode = -1
    /\ globalArgs = <<>>

\* main_unit.cpp:10  Verilated::commandArgs(argc, argv)
UnitCommandArgs ==
    /\ pc = "unit_args"
    /\ \E a \in ArgVectors : globalArgs' = a
    /\ pc' = "unit_print"
    /\ UNCHANGED <<time, gotFinish, sched, events, tfp, attached, isOpen, log, out, exitCode>>

\* A start-up that begins stepping a model.
UnitPrintStartThenEval ==
    /\ pc = "unit_print"
    /\ out' = Append(out, <<"Starting unit test simulation...">>)
    /\ log' = Append(log, <<"eval", time>>)
    /\ time' = time + 1
    /\ pc' = "unit_return"
    /\ UNCHANGED <<gotFinish, sched, events, tfp, attached, isOpen, exitCode, globalArgs>>

\* main_unit.cpp:12
UnitPrintStart ==
    /\ pc = "unit_print"
    /\ out' = Append(out, <<"Starting unit test simulation...">>)
    /\ pc' = "unit_return"
    /\ UNCHANGED <<time, gotFinish, sched, events, tfp, attached, isOpen, log, exitCode, globalArgs>>

\* main_unit.cpp:20  return 0
UnitReturn ==
    /\ pc = "unit_return"
    /\ exitCode' = 0
    /\ pc' = "unit_done"
    /\ UNCHANGED <<time, gotFinish, sched, events, tfp, attached, isOpen, log, out, globalArgs>>

\* The model runtime requests the finish on its own (main_unit.cpp:14-15
\* expects it to); the driver has no part in it.
UnitModelFinishes ==
    /\ pc \in {"unit_args", "unit_print", "unit_return"}
    /\ ~gotFinish
    /\ gotFinish' = TRUE
    /\ log' = Append(log, <<"finish", time>>)
    /\ UNCHANGED <<pc, time, sched, events, tfp, attached, isOpen, out, exitCode, globalArgs>>

NextUnit ==
    \/ UnitCommandArgs
    \/ UnitPrintStart
    \/ UnitReturn
    \/ UnitModelFinishes

SpecUnit == InitUnit /\ [][NextUnit]_vars

\* The statement that follows each position of the unit-test main.
UnitSucc(p) ==
    CASE p = "unit_args" -> "unit_print"
      [] p = "unit_print" -> "unit_return"
      [] p = "unit_return" -> "unit_done"
      [] OTHER -> p

\* C15: the unit-test driver only hands over the arguments, prints its start
\* line and returns 0.  It constructs and evaluates no model, opens and writes
\* no trace, leaves SimulationTime alone, and its steps are the same whether
\* or not the finish flag is raised, which it never changes.
C15_UnitDriverOnlyInitializes ==
    [][ /\ time' = time /\ time = 0
        /\ sched' = NoEvents /\ events' = NoEvents
        /\ tfp' = "null" /\ ~attached' /\ ~isOpen'
        /\ \A i \in DOMAIN log' : log'[i][1] = "finish"
        /\ (pc' # pc => /\ pc' = UnitSucc(pc)
                        /\ gotFinish' = gotFinish
                        /\ log' = log)
        /\ (pc' = pc => out' = out /\ exitCode' = exitCode /\ globalArgs' = globalArgs)
        /\ (pc' = "unit_done" <=> exitCode' = 0)
        /\ (pc' = "unit_done" => out' = << <<"Starting unit test simulation...">> >>)
      ]_vars

\* The driver has returned 0 although the flag was never raised.
C15_Witness ==
    pc = "unit_done" /\ exitCode = 0 /\ ~gotFinish /\ Len(globalArgs) >= 1


----------------------------------------------------------------------------
\* The finish requests made before any evaluate: during construction or setup.
FinishBeforeLoop == {i \in Calls("finish") : \A j \in 1..i : log[j][1] # "eval"}

\* C16: the finish flag is read-only for the driver.  It changes only in a
\* step in which code of the model runs (construction, evaluate), only from
\* clear to raised and together with a finish request of the model; the model
\* requests the finish at most once, and a raised flag stays raised.
C16_FlagReadOnly ==
    [][ /\ (gotFinish' # gotFinish =>
               /\ pc \in {"create_dut", "eval"}
               /\ gotFinish'
               /\ Count("finish")' = Count("finish") + 1)
        /\ (gotFinish => gotFinish')
        /\ (pc \notin {"create_dut", "eval"} => Count("finish")' = Count("finish"))
        /\ Count("finish")' <= 1
        /\ (gotFinish' <=> Count("finish")' = 1)
      ]_vars

\* A run in which the model raised the flag in a later iteration, and returned.
C16_Witness == pc = "done" /\ gotFinish /\ Count("finish") = 1 /\ Count("eval") >= 2

\* C17: the loop is never left in the middle of an iteration.  When the model
\* raises the flag during the evaluate at time t, the next call is the dump
\* at t, then time advances once to t + 1, and there the run stops: no
\* evaluate and no other dump follows, so the last dump is stamped t.
C17_IterationCompletes ==
    \A i \in FinishInEval :
        LET t == log[i][2] IN
        /\ \A j \in Calls("eval") \cup Calls("dump") : j > i => j = i + 1
        /\ (pc = "dump" => time = t /\ Len(log) = i)
        /\ (pc # "dump" => /\ Len(log) > i
                           /\ log[i + 1] = <<"dump", t, t>>)
        /\ (pc = "timeInc" => time = t)
        /\ (pc \in {"loop"} \cup Stopped => time = t + 1)
        /\ pc # "eval"

\* The flag was raised in an evaluate at t >= 1 and the run has stopped.
C17_Witness ==
    pc = "final" /\ \E i \in FinishInEval : log[i][2] >= 1 /\ time = log[i][2] + 1

\* C18: if the flag is already raised when the loop is first checked, there
\* is no evaluate and no dump and time stays 0; the model is still finalized
\* once, the trace closed once, and the time reported is 0.
C18_FinishBeforeLoop ==
    FinishBeforeLoop # {} =>
        /\ Count("eval") = 0
        /\ Count("dump") = 0
        /\ time = 0
        /\ pc \notin {"eval", "dump", "timeInc"}
        /\ (pc \in {"delete", "report", "return", "done"} =>
               Count("final") = 1 /\ Count("close") = 1)
        /\ (pc \in {"return", "done"} => ReportedTime = 0)

\* A run that found the flag raised at the first check, and returned.
C18_Witness == pc = "done" /\ FinishBeforeLoop # {} /\ Len(out) = 2

====
